---- MODULE Spec2Model ----
(***************************************************************************)
(* MeetingIntelApp: the App component (src/src/App.tsx) and the request    *)
(* client generateMeetingIntelligence (src/src/services/geminiService.ts). *)
(*                                                                         *)
(* A string is a sequence of characters; the characters "," and "." are    *)
(* the separators the code splits on, every other character is opaque.     *)
(* A JSON value is a record [t, s, f]: t its type, s the characters of a   *)
(* string, f the properties of an object.                                  *)
(***************************************************************************)
EXTENDS Integers, Sequences, FiniteSets, TLC

VARIABLES activeTab, step, notes, context, files, report, reportsHistory,
          analysisProgress, currentAnalysisStep,
          selected, pending, sessions, completed, alerts, call

appVars == <<activeTab, step, notes, context, files, report, reportsHistory,
             analysisProgress, currentAnalysisStep,
             selected, pending, sessions, completed, alerts>>
vars == <<activeTab, step, notes, context, files, report, reportsHistory,
          analysisProgress, currentAnalysisStep,
          selected, pending, sessions, completed, alerts, call>>

---------------------------------------------------------------------------
(* Bounds *)

MaxSessions == 1
MaxOverlap == 2
MaxUploads == 1
MaxPicks == 2
MaxTicks == 1
MaxLongTicks == 8
MaxCallFiles == 2

---------------------------------------------------------------------------
(* Strings *)

RECURSIVE Split(_, _)
Split(s, sep) ==
    IF \E i \in 1..Len(s) : s[i] = sep
    THEN LET i == CHOOSE k \in 1..Len(s) :
                      s[k] = sep /\ \A j \in 1..(k - 1) : s[j] # sep
         IN  <<SubSeq(s, 1, i - 1)>> \o Split(SubSeq(s, i + 1, Len(s)), sep)
    ELSE <<s>>

---------------------------------------------------------------------------
(* JSON values and JSON.parse over a token alphabet *)

JNull == [t |-> "null", s |-> <<>>, f |-> <<>>]
JStr(s) == [t |-> "str", s |-> s, f |-> <<>>]
JObj(f) == [t |-> "obj", s |-> <<>>, f |-> f]

Chars ==
    [A |-> <<"A">>, B |-> <<"B">>,
     id |-> <<"i", "d">>,
     date |-> <<"d", "a", "t", "e">>,
     title |-> <<"t", "i", "t", "l", "e">>,
     summary |-> <<"s", "u", "m", "m", "a", "r", "y">>,
     overview |-> <<"o", "v", "e", "r", "v", "i", "e", "w">>,
     executiveBrief |-> <<"e", "x", "e", "c", "u", "t", "i", "v", "e",
                          "B", "r", "i", "e", "f">>]

StrLits == DOMAIN Chars

IndexKey == <<"0", "1", "2", "3", "4", "5", "6", "7", "8", "9",
              "10", "11", "12", "13">>

ParseFail == [ok |-> FALSE, v |-> JNull, next |-> 0]

RECURSIVE ParseValue(_, _), ParseMembers(_, _, _)
ParseValue(toks, i) ==
    IF i > Len(toks) THEN ParseFail
    ELSE IF toks[i] = "null" THEN [ok |-> TRUE, v |-> JNull, next |-> i + 1]
    ELSE IF toks[i] \in StrLits
         THEN [ok |-> TRUE, v |-> JStr(Chars[toks[i]]), next |-> i + 1]
    ELSE IF toks[i] = "{"
         THEN IF i + 1 <= Len(toks) /\ toks[i + 1] = "}"
              THEN [ok |-> TRUE, v |-> JObj(<<>>), next |-> i + 2]
              ELSE ParseMembers(toks, i + 1, <<>>)
    ELSE ParseFail

ParseMembers(toks, i, acc) ==
    IF i + 1 > Len(toks) \/ toks[i] \notin StrLits \/ toks[i + 1] # ":"
    THEN ParseFail
    ELSE LET val == ParseValue(toks, i + 2)
             got == (toks[i] :> val.v) @@ acc
         IN  IF ~val.ok \/ val.next > Len(toks) THEN ParseFail
             ELSE IF toks[val.next] = ","
                  THEN ParseMembers(toks, val.next + 1, got)
             ELSE IF toks[val.next] = "}"
                  THEN [ok |-> TRUE, v |-> JObj(got), next |-> val.next + 1]
             ELSE ParseFail

\* JSON.parse(text): ok = FALSE stands for the SyntaxError it throws
JSONParse(toks) ==
    LET r == ParseValue(toks, 1)
    IN  IF r.ok /\ r.next = Len(toks) + 1
        THEN [ok |-> TRUE, v |-> r.v]
        ELSE [ok |-> FALSE, v |-> JNull]

\* the own enumerable properties an object spread {...v} copies
Spread(v) ==
    IF v.t = "obj" THEN v.f
    ELSE IF v.t = "str"
         THEN [k \in {IndexKey[i] : i \in 1..Len(v.s)} |->
                 JStr(<<v.s[CHOOSE i \in 1..Len(v.s) : IndexKey[i] = k]>>)]
    ELSE <<>>

---------------------------------------------------------------------------
(* generateMeetingIntelligence *)

TextPart(n, s, c) ==
    [kind |-> "text",
     text |-> <<"Analyze the following meeting materials and provide structured intelligence.",
                "Notes: ", n, "Slides Content: ", s, "Additional Context: ", c,
                "Return a detailed JSON report according to the schema.">>,
     data |-> <<>>, mimeType |-> ""]

\* file.data.split(',')[1] || file.data
InlineData(data) ==
    LET segs == Split(data, ",")
    IN  IF Len(segs) >= 2 /\ segs[2] # <<>> THEN segs[2] ELSE data

InlinePart(file) ==
    [kind |-> "inlineData", text |-> <<>>,
     data |-> InlineData(file.data), mimeType |-> file.mimeType]

\* mutant: parts.unshift(...) in place of parts.push(...)
UnshiftParts(parts, fs) ==
    [i \in 1..Len(fs) |-> InlinePart(fs[Len(fs) + 1 - i])] \o parts

RECURSIVE PushParts(_, _)
PushParts(parts, fs) ==
    IF fs = <<>> THEN parts
    ELSE PushParts(Append(parts, InlinePart(Head(fs))), Tail(fs))

BuildParts(n, s, c, fs) == PushParts(<<TextPart(n, s, c)>>, fs)

\* a response of the SDK: text present, text undefined, or the call rejected
TextResponse(toks) == [kind |-> "text", text |-> toks]
NoTextResponse == [kind |-> "notext", text |-> <<>>]
Rejection == [kind |-> "reject", text |-> <<>>]

\* mutant: the parse wrapped in try/catch that yields {} on a SyntaxError
ParseResponseSwallowing(resp) ==
    LET r == JSONParse(IF resp.kind = "notext" \/ resp.text = <<>>
                       THEN <<"{", "}">> ELSE resp.text)
    IN  IF r.ok THEN r ELSE [ok |-> TRUE, v |-> JObj(<<>>)]

\* JSON.parse(response.text || "{}")
ParseResponse(resp) ==
    JSONParse(IF resp.kind = "notext" \/ resp.text = <<>>
              THEN <<"{", "}">> ELSE resp.text)

\* mutant: the client catches the SDK's error and returns an empty object
OutcomeRecovering(resp) ==
    IF resp.kind = "reject" THEN JSONParse(<<"{", "}">>)
    ELSE ParseResponse(resp)

\* the outcome of the awaited call: a returned value or a thrown error
Outcome(resp) ==
    IF resp.kind = "reject" THEN [ok |-> FALSE, v |-> JNull]
    ELSE ParseResponse(resp)

---------------------------------------------------------------------------
(* App: constants and inputs *)

MOCK_REPORT ==
    JObj([id |-> JStr(<<"mock-1">>),
          date |-> JStr(<<"Oct 12, 2024">>),
          title |-> JStr(<<"Strategy Sync - Q4 Growth">>),
          summary |-> JObj([overview |-> JStr(<<"High-level alignment">>)]),
          executiveBrief |-> JStr(<<"We are moving forward">>)])

\* Math.random() * 15 lies in [0, 15)
IncLimit == 15
Incs == {IncLimit - 1}

\* the file the user picks
FileDoc ==
    [name |-> <<"q3", ".", "review", ".", "pdf">>,
     type |-> "application/pdf", body |-> <<"QUJD">>]
UserFiles == {FileDoc}
\* a second file: a slide deck
FileDeck ==
    [name |-> <<"deck", ".", "pptx">>,
     type |-> "application/vnd.ms-powerpoint", body |-> <<"UEsD">>]
PickFiles == {FileDoc, FileDeck}

\* FileReader.readAsDataURL
ReadAsDataURL(file) == <<"data:", file.type, ";base64", ",">> \o file.body

ContextTexts == {"", "Q3 plan"}

\* Math.random().toString(36).substr(2, 9): nine digits of a fraction, or
\* fewer when the fraction is short (0.5 is '0.i')
RandomIds == {<<"k3j9x0a1b">>, <<"i">>}
\* the id drawn where one session runs at a time
OneId == {<<"k3j9x0a1b">>}
\* new Date().toLocaleDateString('en-US', ...)
Today == <<"Nov 4, 2026">>

TxtEmptyObject == <<"{", "}">>
TxtReport ==
    <<"{", "id", ":", "A", ",", "date", ":", "A", ",", "title", ":", "A", ",",
      "summary", ":", "{", "overview", ":", "A", "}", ",",
      "executiveBrief", ":", "B", "}">>
TxtOwnIdentity ==
    <<"{", "id", ":", "A", ",", "date", ":", "A", ",", "title", ":", "A", ",",
      "executiveBrief", ":", "B", "}">>
TxtTruncated == <<"{", "summary", ":">>
TxtHtml == <<"<html>">>
TxtNull == <<"null">>
TxtString == <<"A">>

\* what the service can answer a session with
Responses ==
    {Rejection, TextResponse(<<>>), TextResponse(TxtReport),
     TextResponse(TxtNull), TextResponse(TxtTruncated)}

---------------------------------------------------------------------------
(* App: startAnalysis and the handlers *)

InputPanel == activeTab = "GENERATE" /\ step = "INPUT"

\* {step === 'REPORT' && report && (...)}
ReportPanel == step = "REPORT" /\ report # JNull

\* the report panel reads report.summary.overview: a TypeError when
\* report.summary is undefined or null
RenderThrows ==
    /\ ReportPanel
    /\ \/ "summary" \notin DOMAIN report.f
       \/ report.f.summary.t = "null"

\* App.tsx has no error boundary: an error thrown while rendering unmounts
\* the App, and no handler and no state setter acts any more
Mounted == ~RenderThrows

\* files.map(f => ({ data: f.data, mimeType: f.type }))
CallFiles(fs) == [i \in 1..Len(fs) |-> [data |-> fs[i].data, mimeType |-> fs[i].type]]

\* files[0]?.name.split('.')[0] || 'Untitled Session'
Title(fs) ==
    IF fs = <<>> THEN <<"Untitled Session">>
    ELSE LET base == Split(fs[1].name, ".")[1]
         IN  IF base = <<>> THEN <<"Untitled Session">> ELSE base

\* mutant: { id, date, title, ...result }
FinalReportSpreadLast(result, id, date, title) ==
    JObj(Spread(result)
         @@ [id |-> JStr(id), date |-> JStr(date), title |-> JStr(title)])

\* { ...result, id, date, title }
FinalReport(result, id, date, title) ==
    JObj([id |-> JStr(id), date |-> JStr(date), title |-> JStr(title)]
         @@ Spread(result))

\* mutant: [...prev, finalReport]
AppendReport(prev, r) == prev \o <<r>>

\* mutant: setReportsHistory([finalReport])
OnlyLatestReport(prev, r) == <<r>>

\* mutant: the report is selected without being added to the history
KeepHistory(prev, r) == prev

\* setReportsHistory(prev => [finalReport, ...prev])
PrependReport(prev, r) == <<r>> \o prev

NoResponse == [kind |-> "none", text |-> <<>>]

Init ==
    /\ activeTab = "GENERATE"
    /\ step = "INPUT"
    /\ notes = ""
    /\ context = ""
    /\ files = <<>>
    /\ report = JNull
    /\ reportsHistory = <<MOCK_REPORT>>
    /\ analysisProgress = 0
    /\ currentAnalysisStep = 0
    /\ selected = <<>>
    /\ pending = {}
    /\ sessions = <<>>
    /\ completed = <<>>
    /\ alerts = 0
    /\ call = [pc |-> "idle", notes |-> "", slides |-> "", context |-> "",
               files |-> <<>>, parts |-> <<>>, resp |-> NoResponse,
               result |-> JNull]

\* handleFileUpload up to reader.readAsDataURL(file)
SelectFile(f, maxUploads) ==
    /\ Mounted
    /\ InputPanel
    /\ Len(selected) < maxUploads
    /\ selected' = Append(selected, f)
    /\ pending' = pending \cup {Len(selected) + 1}
    /\ UNCHANGED <<activeTab, step, notes, context, files, report,
                   reportsHistory, analysisProgress, currentAnalysisStep,
                   sessions, completed, alerts, call>>

\* mutant: reader.onload keeps a file only when it is a PDF
ReaderLoadPdfOnly(i) ==
    /\ Mounted
    /\ i \in pending
    /\ files' = IF selected[i].type = "application/pdf"
                THEN Append(files, [name |-> selected[i].name,
                                    type |-> selected[i].type,
                                    data |-> ReadAsDataURL(selected[i])])
                ELSE files
    /\ pending' = pending \ {i}
    /\ UNCHANGED <<activeTab, step, notes, context, report, reportsHistory,
                   analysisProgress, currentAnalysisStep, selected, sessions,
                   completed, alerts, call>>

\* reader.onload
ReaderLoad(i) ==
    /\ Mounted
    /\ i \in pending
    /\ files' = Append(files, [name |-> selected[i].name,
                               type |-> selected[i].type,
                               data |-> ReadAsDataURL(selected[i])])
    /\ pending' = pending \ {i}
    /\ UNCHANGED <<activeTab, step, notes, context, report, reportsHistory,
                   analysisProgress, currentAnalysisStep, selected, sessions,
                   completed, alerts, call>>

\* mutant: the textarea's onChange calls setNotes
SetContextAsNotes(c) ==
    /\ Mounted
    /\ InputPanel
    /\ c # notes
    /\ notes' = c
    /\ UNCHANGED <<activeTab, step, context, files, report, reportsHistory,
                   analysisProgress, currentAnalysisStep, selected, pending,
                   sessions, completed, alerts, call>>

\* the context textarea's onChange
SetContext(c) ==
    /\ Mounted
    /\ InputPanel
    /\ c # context
    /\ context' = c
    /\ UNCHANGED <<activeTab, step, notes, files, report, reportsHistory,
                   analysisProgress, currentAnalysisStep, selected, pending,
                   sessions, completed, alerts, call>>

\* startAnalysis up to the await
StartAnalysis(maxSessions) ==
    /\ Mounted
    /\ InputPanel
    /\ Len(sessions) < maxSessions
    /\ step' = "ANALYZING"
    /\ analysisProgress' = 0
    /\ currentAnalysisStep' = 0
    /\ sessions' = Append(sessions,
         [pc |-> "awaiting", timer |-> TRUE, ticks |-> 0,
          notes |-> notes, context |-> context, files |-> files,
          currentAnalysisStep |-> currentAnalysisStep,
          parts |-> BuildParts(notes, "", context, CallFiles(files)),
          calls |-> 1, resp |-> NoResponse, id |-> <<>>, title |-> <<>>,
          report |-> JNull])
    /\ UNCHANGED <<activeTab, notes, context, files, report, reportsHistory,
                   selected, pending, completed, alerts, call>>

\* one callback of the session's setInterval
Tick(s, inc, maxTicks) ==
    /\ Mounted
    /\ s \in 1..Len(sessions)
    /\ sessions[s].timer
    /\ sessions[s].ticks < maxTicks
    /\ IF analysisProgress >= 100
       THEN /\ sessions' = [sessions EXCEPT ![s].timer = FALSE,
                                            ![s].ticks = @ + 1]
            /\ analysisProgress' = 100
            /\ UNCHANGED currentAnalysisStep
       ELSE LET next == analysisProgress + inc
                cur == sessions[s].currentAnalysisStep
            IN  /\ sessions' = [sessions EXCEPT ![s].ticks = @ + 1]
                /\ analysisProgress' = next
                /\ currentAnalysisStep' =
                      IF next > 25 /\ cur = 0 THEN 1
                      ELSE IF next > 50 /\ cur = 1 THEN 2
                      ELSE IF next > 75 /\ cur = 2 THEN 3
                      ELSE currentAnalysisStep
    /\ UNCHANGED <<activeTab, step, notes, context, files, report,
                   reportsHistory, selected, pending, completed, alerts, call>>

\* what a settling session leaves behind: its closure is dropped
Closed(s, pc, timer, resp, id, title, r) ==
    [sessions EXCEPT ![s] =
        [pc |-> pc, timer |-> timer, ticks |-> 0, notes |-> "",
         context |-> "", files |-> <<>>, currentAnalysisStep |-> 0,
         parts |-> <<>>, calls |-> sessions[s].calls, resp |-> resp,
         id |-> id, title |-> title, report |-> r]]

\* mutant: the try block ends without the setTimeout that enters REPORT
FulfilledWithoutTimeout(s, resp, result, id) ==
    LET title == Title(sessions[s].files)
        finalReport == FinalReport(result, id, Today, title)
    IN  /\ report' = finalReport
        /\ reportsHistory' = PrependReport(reportsHistory, finalReport)
        /\ analysisProgress' = 100
        /\ currentAnalysisStep' = 3
        /\ completed' = Append(completed, finalReport)
        /\ sessions' = Closed(s, "shown", FALSE, resp, id, title, finalReport)
        /\ UNCHANGED <<step, alerts, notes, context, files>>

\* startAnalysis after the await returned result: the try block, then finally
Fulfilled(s, resp, result, id) ==
    LET title == Title(sessions[s].files)
        finalReport == FinalReport(result, id, Today, title)
    IN  /\ report' = finalReport
        /\ reportsHistory' = PrependReport(reportsHistory, finalReport)
        /\ analysisProgress' = 100
        /\ currentAnalysisStep' = 3
        /\ completed' = Append(completed, finalReport)
        /\ sessions' = Closed(s, "succeeded", FALSE, resp, id, title, finalReport)
        /\ UNCHANGED <<step, alerts, notes, context, files>>

\* mutant: the catch block also resets the collector
RejectedDiscardingInput(s, resp) ==
    /\ step' = "INPUT"
    /\ alerts' = alerts + 1
    /\ files' = <<>>
    /\ notes' = ""
    /\ context' = ""
    /\ sessions' = Closed(s, "failed", FALSE, resp, <<>>, <<>>, JNull)
    /\ UNCHANGED <<report, reportsHistory, analysisProgress,
                   currentAnalysisStep, completed>>

\* mutant: clearInterval at the end of the try block instead of in finally
RejectedKeepingTimer(s, resp) ==
    /\ step' = "INPUT"
    /\ alerts' = alerts + 1
    /\ sessions' = Closed(s, "failed", sessions[s].timer, resp, <<>>, <<>>, JNull)
    /\ UNCHANGED <<report, reportsHistory, analysisProgress,
                   currentAnalysisStep, completed, notes, context, files>>

\* mutant: try/finally without the catch block
RejectedUncaught(s, resp) ==
    /\ sessions' = Closed(s, "failed", FALSE, resp, <<>>, <<>>, JNull)
    /\ UNCHANGED <<step, alerts, report, reportsHistory, analysisProgress,
                   currentAnalysisStep, completed, notes, context, files>>

\* mutant: the catch block sets the step to REPORT
RejectedToReport(s, resp) ==
    /\ step' = "REPORT"
    /\ alerts' = alerts + 1
    /\ sessions' = Closed(s, "failed", FALSE, resp, <<>>, <<>>, JNull)
    /\ UNCHANGED <<report, reportsHistory, analysisProgress,
                   currentAnalysisStep, completed, notes, context, files>>

\* mutant: the catch block issues the request a second time before giving up
RejectedRetrying(s, resp) ==
    IF sessions[s].calls < 2
    THEN /\ sessions' = [sessions EXCEPT ![s].calls = @ + 1]
         /\ UNCHANGED <<step, alerts, report, reportsHistory, analysisProgress,
                        currentAnalysisStep, completed, notes, context, files>>
    ELSE /\ step' = "INPUT"
         /\ alerts' = alerts + 1
         /\ sessions' = Closed(s, "failed", FALSE, resp, <<>>, <<>>, JNull)
         /\ UNCHANGED <<report, reportsHistory, analysisProgress,
                        currentAnalysisStep, completed, notes, context, files>>

\* mutant: the catch block alerts without setStep('INPUT')
RejectedAlertOnly(s, resp) ==
    /\ alerts' = alerts + 1
    /\ sessions' = Closed(s, "failed", FALSE, resp, <<>>, <<>>, JNull)
    /\ UNCHANGED <<step, report, reportsHistory, analysisProgress,
                   currentAnalysisStep, completed, notes, context, files>>

\* startAnalysis after the await threw: the catch block, then finally
Rejected(s, resp) ==
    /\ step' = "INPUT"
    /\ alerts' = alerts + 1
    /\ sessions' = Closed(s, "failed", FALSE, resp, <<>>, <<>>, JNull)
    /\ UNCHANGED <<report, reportsHistory, analysisProgress,
                   currentAnalysisStep, completed, notes, context, files>>

\* startAnalysis from the settled await to the end of finally
Settle(s, resp, id) ==
    /\ Mounted
    /\ s \in 1..Len(sessions)
    /\ sessions[s].pc = "awaiting"
    /\ LET out == Outcome(resp)
       IN  IF out.ok THEN Fulfilled(s, resp, out.v, id) ELSE Rejected(s, resp)
    /\ UNCHANGED <<activeTab, selected, pending, call>>

\* the callback of setTimeout(() => setStep('REPORT'), 1000)
ShowReport(s) ==
    /\ Mounted
    /\ s \in 1..Len(sessions)
    /\ sessions[s].pc = "succeeded"
    /\ step' = "REPORT"
    /\ sessions' = [sessions EXCEPT ![s].pc = "shown"]
    /\ UNCHANGED <<activeTab, notes, context, files, report, reportsHistory,
                   analysisProgress, currentAnalysisStep, selected, pending,
                   completed, alerts, call>>

\* mutant: New Session also resets the history to its seed
NewSessionClearingHistory ==
    /\ Mounted
    /\ activeTab' = "GENERATE"
    /\ step' = "INPUT"
    /\ report' = JNull
    /\ files' = <<>>
    /\ notes' = ""
    /\ context' = ""
    /\ reportsHistory' = <<MOCK_REPORT>>
    /\ UNCHANGED <<analysisProgress, currentAnalysisStep,
                   selected, pending, sessions, completed, alerts, call>>

\* the New Session button's onClick
NewSession ==
    /\ Mounted
    /\ activeTab' = "GENERATE"
    /\ step' = "INPUT"
    /\ report' = JNull
    /\ files' = <<>>
    /\ notes' = ""
    /\ context' = ""
    /\ UNCHANGED <<reportsHistory, analysisProgress, currentAnalysisStep,
                   selected, pending, sessions, completed, alerts, call>>

NavGenerate ==
    /\ Mounted
    /\ activeTab' = "GENERATE"
    /\ step' = "INPUT"
    /\ UNCHANGED <<notes, context, files, report, reportsHistory,
                   analysisProgress, currentAnalysisStep, selected, pending,
                   sessions, completed, alerts, call>>

NavReports ==
    /\ Mounted
    /\ activeTab' = "REPORTS"
    /\ step' = "INPUT"
    /\ UNCHANGED <<notes, context, files, report, reportsHistory,
                   analysisProgress, currentAnalysisStep, selected, pending,
                   sessions, completed, alerts, call>>

\* a Recent Intelligence entry: reportsHistory.slice(0, 5)
OpenRecent(i) ==
    /\ Mounted
    /\ i \in 1..Len(reportsHistory)
    /\ i <= 5
    /\ report' = reportsHistory[i]
    /\ step' = "REPORT"
    /\ activeTab' = "REPORTS"
    /\ UNCHANGED <<notes, context, files, reportsHistory, analysisProgress,
                   currentAnalysisStep, selected, pending, sessions,
                   completed, alerts, call>>

\* View Report in the archive table
ViewReport(i) ==
    /\ Mounted
    /\ activeTab = "REPORTS"
    /\ step # "REPORT"
    /\ i \in 1..Len(reportsHistory)
    /\ report' = reportsHistory[i]
    /\ step' = "REPORT"
    /\ UNCHANGED <<activeTab, notes, context, files, reportsHistory,
                   analysisProgress, currentAnalysisStep, selected, pending,
                   sessions, completed, alerts, call>>

\* the events of the App, with at most maxSessions calls of startAnalysis
\* and at most maxUploads selections among userFiles; Math.random draws in ids
Step(maxSessions, maxUploads, userFiles, ids, maxTicks) ==
    \/ \E f \in userFiles : SelectFile(f, maxUploads)
    \/ \E i \in 1..maxUploads : ReaderLoad(i)
    \/ \E c \in ContextTexts : SetContext(c)
    \/ StartAnalysis(maxSessions)
    \/ \E s \in 1..maxSessions, inc \in Incs : Tick(s, inc, maxTicks)
    \/ \E s \in 1..maxSessions, resp \in Responses, id \in ids :
          Settle(s, resp, id)
    \/ \E s \in 1..maxSessions : ShowReport(s)
    \/ NewSession
    \/ NavGenerate
    \/ NavReports
    \/ \E i \in 1..(maxSessions + 1) : OpenRecent(i)
    \/ \E i \in 1..(maxSessions + 1) : ViewReport(i)

Next == Step(MaxSessions, MaxUploads, UserFiles, OneId, MaxTicks)

Spec == Init /\ [][Next]_vars

\* the App with startAnalysis called up to MaxOverlap times
NextOverlap == Step(MaxOverlap, MaxUploads, UserFiles, RandomIds, MaxTicks)

SpecOverlap == Init /\ [][NextOverlap]_vars

\* the App with up to MaxPicks selections among two different files
NextUploads == Step(MaxSessions, MaxPicks, PickFiles, OneId, MaxTicks)

SpecUploads == Init /\ [][NextUploads]_vars

\* the App with a request slow enough for MaxLongTicks callbacks of the timer
NextProgress == Step(MaxSessions, MaxUploads, UserFiles, OneId, MaxLongTicks)

SpecProgress == Init /\ [][NextProgress]_vars

\* no session is outstanding
Idle == \A s \in 1..Len(sessions) : sessions[s].pc \notin {"awaiting", "succeeded"}

\* the App with a user who, once startAnalysis is called, does nothing until
\* the session has ended: the handlers of the user run only when Idle
NextQuiet ==
    \/ \E f \in UserFiles : Idle /\ SelectFile(f, MaxUploads)
    \/ \E i \in 1..MaxUploads : ReaderLoad(i)
    \/ \E c \in ContextTexts : Idle /\ SetContext(c)
    \/ Idle /\ StartAnalysis(MaxSessions)
    \/ \E s \in 1..MaxSessions, inc \in Incs : Tick(s, inc, MaxTicks)
    \/ \E s \in 1..MaxSessions, resp \in Responses, id \in OneId :
          Settle(s, resp, id)
    \/ \E s \in 1..MaxSessions : ShowReport(s)
    \/ Idle /\ NewSession
    \/ Idle /\ NavGenerate
    \/ Idle /\ NavReports
    \/ \E i \in 1..(MaxSessions + 1) : Idle /\ OpenRecent(i)
    \/ \E i \in 1..(MaxSessions + 1) : Idle /\ ViewReport(i)

\* the awaited request settles, and the callback of setTimeout runs
SpecQuiet ==
    /\ Init
    /\ [][NextQuiet]_vars
    /\ WF_vars(\E s \in 1..MaxSessions, resp \in Responses, id \in OneId :
                  Settle(s, resp, id))
    /\ WF_vars(\E s \in 1..MaxSessions : ShowReport(s))

---------------------------------------------------------------------------
(* generateMeetingIntelligence called on its own, with arbitrary arguments *)

\* payloads: no comma, prefix and body, empty body, empty prefix, empty
DataStrings ==
    {<<>>, <<"b">>, <<"p", ",", "b">>, <<"p", ",">>, <<",", "b">>,
     <<"p", "p", ",", "b", "b">>}
MimeTypes == {"application/pdf", "image/png"}
CallFileSet == [data : DataStrings, mimeType : MimeTypes]
CallFileLists == UNION {[1..n -> CallFileSet] : n \in 0..MaxCallFiles}
CallTexts == {<<"Budget review", "", "">>, <<"", "slide 1", "Q3 plan">>}

ClientResponses ==
    {Rejection, NoTextResponse, TextResponse(<<>>), TextResponse(TxtEmptyObject),
     TextResponse(TxtReport), TextResponse(TxtTruncated), TextResponse(TxtHtml),
     TextResponse(TxtNull), TextResponse(TxtString)}

InitClient ==
    /\ activeTab = "GENERATE"
    /\ step = "INPUT"
    /\ notes = ""
    /\ context = ""
    /\ files = <<>>
    /\ report = JNull
    /\ reportsHistory = <<MOCK_REPORT>>
    /\ analysisProgress = 0
    /\ currentAnalysisStep = 0
    /\ selected = <<>>
    /\ pending = {}
    /\ sessions = <<>>
    /\ completed = <<>>
    /\ alerts = 0
    /\ \E t \in CallTexts, fs \in CallFileLists :
          call = [pc |-> "ready", notes |-> t[1], slides |-> t[2],
                  context |-> t[3], files |-> fs, parts |-> <<>>,
                  resp |-> NoResponse, result |-> JNull]

\* generateMeetingIntelligence up to the await
ClientSend ==
    /\ call.pc = "ready"
    /\ call' = [call EXCEPT !.pc = "awaiting",
                            !.parts = BuildParts(call.notes, call.slides,
                                                 call.context, call.files)]
    /\ UNCHANGED appVars

\* generateMeetingIntelligence from the settled await to its return or throw
ClientReturn(resp) ==
    /\ call.pc = "awaiting"
    /\ LET out == Outcome(resp)
       IN  call' = [call EXCEPT !.pc = IF out.ok THEN "returned" ELSE "thrown",
                                !.resp = resp,
                                !.result = out.v]
    /\ UNCHANGED appVars

NextClient ==
    \/ ClientSend
    \/ \E resp \in ClientResponses : ClientReturn(resp)

SpecClient == InitClient /\ [][NextClient]_vars

---------------------------------------------------------------------------
(* Claims *)

RECURSIVE Reverse(_)
Reverse(q) == IF q = <<>> THEN <<>> ELSE Append(Reverse(Tail(q)), Head(q))

IsInfix(a, b) ==
    \E i \in 1..(Len(b) + 1) :
        i + Len(a) - 1 <= Len(b) /\ SubSeq(b, i, i + Len(a) - 1) = a

HasComma(d) == \E i \in 1..Len(d) : d[i] = ","
FirstComma(d) == CHOOSE i \in 1..Len(d) : d[i] = "," /\ \A j \in 1..(i - 1) : d[j] # ","
\* the <body> of a payload '<prefix>,<body>'
BodyOf(d) == SubSeq(d, FirstComma(d) + 1, Len(d))

\* C1: the request's parts are one text part, then one inlineData part per
\* element of files, in the order of files and with its mimeType; with no
\* files the text part is the only part.
C1_PartsFollowFiles ==
    call.pc # "ready" =>
        /\ Len(call.parts) = 1 + Len(call.files)
        /\ call.parts[1].kind = "text"
        /\ \A i \in 1..Len(call.files) :
              /\ call.parts[i + 1].kind = "inlineData"
              /\ call.parts[i + 1].mimeType = call.files[i].mimeType
              /\ IsInfix(call.parts[i + 1].data, call.files[i].data)

C1_Witness ==
    /\ call.pc = "awaiting"
    /\ Len(call.files) = 2
    /\ call.files[1].mimeType # call.files[2].mimeType
    /\ call.files[1].data = <<"p", ",", "b">>
    /\ call.files[2].data = <<"p", "p", ",", "b", "b">>
    /\ Len(call.parts) = 3
    /\ call.parts[3].data = <<"b", "b">>

\* C2: the data of every attachment is the payload with its data-URI prefix
\* stripped: the body of '<prefix>,<body>', also when the body is empty, and
\* the whole payload when it has no comma.
C2_PrefixStripped ==
    call.pc # "ready" =>
        \A i \in 1..Len(call.files) :
            LET d == call.files[i].data
            IN  /\ i + 1 <= Len(call.parts)
                /\ call.parts[i + 1].data = IF HasComma(d) THEN BodyOf(d) ELSE d

---------------------------------------------------------------------------
(* Claims about the sessions of the App *)

Settled(s) == sessions[s].pc \in {"succeeded", "shown", "failed"}
Succeeded(s) == sessions[s].pc \in {"succeeded", "shown"}
\* the session's response carries a text that is not valid JSON
InvalidText(r) == r.kind = "text" /\ ~JSONParse(r.text).ok
ValidText(r) == r.kind = "text" /\ JSONParse(r.text).ok
EmptyFieldsReport(r) == r.t = "obj" /\ DOMAIN r.f = {"id", "date", "title"}
\* the step settles session s
Settles(s) == sessions[s].pc = "awaiting" /\ sessions'[s].pc # "awaiting"

\* C3 as stated: a response text that is not valid JSON makes the session a
\* success that stores an empty-fields report, and raises no error.
C3_InvalidTextDegradesSilently ==
    \A s \in 1..Len(sessions) :
        (Settled(s) /\ InvalidText(sessions[s].resp)) =>
            Succeeded(s) /\ EmptyFieldsReport(sessions[s].report)

\* C3 amended: only the empty response text degrades to an empty-fields
\* report; a non-empty text that is not valid JSON fails the session and
\* stores no report.
C3_OnlyEmptyTextDegrades ==
    \A s \in 1..Len(sessions) :
        (Settled(s) /\ InvalidText(sessions[s].resp)) =>
            IF sessions[s].resp.text = <<>>
            THEN Succeeded(s) /\ EmptyFieldsReport(sessions[s].report)
            ELSE sessions[s].pc = "failed" /\ sessions[s].report = JNull

C3_Witness ==
    \E s \in 1..Len(sessions) :
        /\ sessions[s].pc = "failed"
        /\ sessions[s].resp = TextResponse(TxtTruncated)
        /\ alerts = 1
        /\ reportsHistory = <<MOCK_REPORT>>

\* C4: settling a session on a response text that is not valid JSON ends in
\* one of two outcomes: the failure (step INPUT, one alert, no report stored)
\* or an empty-fields report stored and selected.
C4_TwoOutcomes ==
    [][\A s \in 1..Len(sessions) :
          (Settles(s) /\ InvalidText(sessions'[s].resp)) =>
              \/ /\ sessions'[s].pc = "failed"
                 /\ step' = "INPUT"
                 /\ alerts' = alerts + 1
                 /\ reportsHistory' = reportsHistory
                 /\ report' = report
              \/ /\ sessions'[s].pc = "succeeded"
                 /\ EmptyFieldsReport(report')
                 /\ reportsHistory' = <<report'>> \o reportsHistory
                 /\ alerts' = alerts
                 /\ step' = step]_vars

C4_Witness ==
    \E s \in 1..Len(sessions) :
        /\ sessions[s].pc = "succeeded"
        /\ sessions[s].resp = TextResponse(<<>>)
        /\ EmptyFieldsReport(report)
        /\ reportsHistory = <<report, MOCK_REPORT>>
        /\ alerts = 0

\* C5 as stated: handling a failed request leaves step = INPUT and the
\* collected input discarded (files empty, notes and context empty).
C5_FailureDiscardsInput ==
    [][\A s \in 1..Len(sessions) :
          (Settles(s) /\ sessions'[s].pc = "failed") =>
              step' = "INPUT" /\ files' = <<>> /\ notes' = "" /\ context' = ""]_vars

\* C5 amended: handling a failed request leaves step = INPUT and the
\* collected input as it was (files, notes and context unchanged).
C5_FailureKeepsInput ==
    [][\A s \in 1..Len(sessions) :
          (Settles(s) /\ sessions'[s].pc = "failed") =>
              /\ step' = "INPUT"
              /\ files' = files /\ notes' = notes /\ context' = context]_vars

C5_Witness ==
    /\ \E s \in 1..Len(sessions) :
          sessions[s].pc = "failed" /\ sessions[s].resp = Rejection
    /\ step = "INPUT"
    /\ Len(files) = 1
    /\ context = "Q3 plan"
    /\ alerts = 1

\* a click on New Session, Generate Meeting Intel, Reports or a history entry
Navigates == NewSession \/ NavGenerate \/ NavReports \/ \E i \in 1..5 : OpenRecent(i)

\* C6: navigating away while a session is in flight stops that session's
\* timer, and the abandoned session changes no state afterwards.
C6_AbandonStopsSession ==
    [][\A s \in 1..Len(sessions) :
          /\ (sessions[s].pc = "awaiting" /\ Navigates) => ~sessions'[s].timer
          /\ (sessions[s].pc = "awaiting" /\ step # "ANALYZING"
                /\ sessions'[s] # sessions[s]) =>
                 /\ analysisProgress' = analysisProgress
                 /\ currentAnalysisStep' = currentAnalysisStep
                 /\ report' = report
                 /\ reportsHistory' = reportsHistory
                 /\ step' = step]_vars

\* C7: with N sessions completed successfully the history holds N + 1
\* entries: the generated reports, latest completion first, then the seed.
C7_HistoryNewestFirst ==
    /\ Len(reportsHistory) = Cardinality({s \in 1..Len(sessions) : Succeeded(s)}) + 1
    /\ reportsHistory = Reverse(completed) \o <<MOCK_REPORT>>

C7_Witness ==
    /\ Len(completed) = 2
    /\ completed[1] # completed[2]
    /\ reportsHistory = <<completed[2], completed[1], MOCK_REPORT>>
    /\ \A s \in 1..Len(sessions) : sessions[s].pc = "shown"

\* C8: at most one session is in flight at any time.
C8_OneSessionInFlight ==
    Cardinality({s \in 1..Len(sessions) : sessions[s].pc = "awaiting"}) <= 1

\* C9: once a session's request has settled, by success or by failure, its
\* interval is cleared, so that no callback of it runs afterwards.
C9_TimerClearedOnceSettled ==
    [][\A s \in 1..Len(sessions) :
          /\ Settles(s) => ~sessions'[s].timer
          /\ Settled(s) => /\ ~sessions[s].timer
                           /\ ~sessions'[s].timer
                           /\ ~\E inc \in Incs : Tick(s, inc, MaxTicks)]_vars

C9_Witness ==
    \E s \in 1..Len(sessions) :
        /\ sessions[s].pc = "failed"
        /\ ~sessions[s].timer
        /\ analysisProgress = IncLimit - 1

\* C10: a session that succeeds on a valid JSON text stores the parsed
\* object's properties unchanged, except id, date and title, which are the
\* locally generated values whatever the parsed object holds.
C10_ReportIsParsedPlusIdentity ==
    \A s \in 1..Len(sessions) :
        (Succeeded(s) /\ ValidText(sessions[s].resp)) =>
            LET parsed == Spread(JSONParse(sessions[s].resp.text).v)
                r == sessions[s].report
            IN  /\ \E i \in 1..Len(reportsHistory) : reportsHistory[i] = r
                /\ DOMAIN r.f = DOMAIN parsed \cup {"id", "date", "title"}
                /\ \A k \in DOMAIN parsed \ {"id", "date", "title"} :
                      r.f[k] = parsed[k]
                /\ r.f["id"] = JStr(sessions[s].id)
                /\ r.f["date"] = JStr(Today)
                /\ r.f["title"] = JStr(sessions[s].title)

C10_Witness ==
    \E s \in 1..Len(sessions) :
        /\ sessions[s].pc = "shown"
        /\ sessions[s].resp = TextResponse(TxtReport)
        /\ report = sessions[s].report
        /\ step = "REPORT"
        /\ report.f["executiveBrief"] = JStr(<<"B">>)
        /\ report.f["summary"] = JObj([overview |-> JStr(<<"A">>)])
        /\ report.f["id"] = JStr(<<"k3j9x0a1b">>)
        /\ report.f["date"] = JStr(<<"Nov 4, 2026">>)
        /\ report.f["title"] = JStr(<<"q3">>)

\* C11: a session whose request fails creates and shows no report: handling
\* the failure leaves reportsHistory and the selected report unchanged and
\* does not enter REPORT, and a failed session never runs the callback that
\* enters REPORT.
C11_FailedSessionShowsNoReport ==
    [][\A s \in 1..Len(sessions) :
          /\ (Settles(s) /\ sessions'[s].pc = "failed") =>
                 /\ reportsHistory' = reportsHistory
                 /\ report' = report
                 /\ step' # "REPORT"
          /\ sessions[s].pc = "failed" =>
                 /\ sessions'[s].pc = "failed"
                 /\ ~ShowReport(s)]_vars

C11_Witness ==
    /\ \E s \in 1..Len(sessions) :
          sessions[s].pc = "failed" /\ sessions[s].resp = Rejection
    /\ report = MOCK_REPORT
    /\ reportsHistory = <<MOCK_REPORT>>
    /\ step = "INPUT"

\* a response that makes the awaited call throw: the SDK's rejection, or a
\* non-empty text that JSON.parse refuses
FailedCall(r) == r.kind = "reject" \/ (InvalidText(r) /\ r.text # <<>>)

\* C12: every failure of the outbound call, whatever its kind, is handled at
\* the catch block of startAnalysis: one alert, step set to INPUT, no second
\* request and no report stored in place of the failed one.
C12_EveryFailureAtTheCatch ==
    [][\A s \in 1..Len(sessions) :
          (Settles(s) /\ FailedCall(sessions'[s].resp)) =>
              /\ sessions'[s].pc = "failed"
              /\ alerts' = alerts + 1
              /\ step' = "INPUT"
              /\ sessions'[s].calls = sessions[s].calls
              /\ sessions'[s].report = JNull
              /\ completed' = completed]_vars

C12_Witness ==
    /\ \E s \in 1..Len(sessions) :
          /\ sessions[s].pc = "failed"
          /\ sessions[s].resp = Rejection
          /\ sessions[s].calls = 1
    /\ alerts = 1
    /\ step = "INPUT"
    /\ files = <<>>
    /\ report = JNull

\* the requests issued by the first n sessions
RECURSIVE RequestsIssued(_)
RequestsIssued(n) == IF n = 0 THEN 0 ELSE RequestsIssued(n - 1) + sessions[n].calls

\* C13: each call of startAnalysis issues exactly one outbound request,
\* whether it succeeds or fails: the requests issued are as many as the
\* sessions started.
C13_OneRequestPerSession ==
    /\ \A s \in 1..Len(sessions) : sessions[s].calls = 1
    /\ RequestsIssued(Len(sessions)) = Len(sessions)

C13_Witness ==
    /\ Len(sessions) = 1
    /\ sessions[1].pc = "succeeded"
    /\ sessions[1].resp = TextResponse(TxtNull)
    /\ RequestsIssued(1) = 1
    /\ alerts = 0

IsSuffix(a, b) == Len(a) <= Len(b) /\ SubSeq(b, Len(b) - Len(a) + 1, Len(b)) = a

\* C14: reportsHistory only grows, and only at its head: in every step the
\* history before the step is a suffix of the history after it.
C14_HistoryOnlyPrepended ==
    [][IsSuffix(reportsHistory, reportsHistory')]_vars

C14_Witness ==
    /\ Len(reportsHistory) = 2
    /\ reportsHistory[2] = MOCK_REPORT
    /\ \E s \in 1..Len(sessions) :
          sessions[s].pc = "shown" /\ reportsHistory[1] = sessions[s].report
    /\ report = JNull
    /\ files = <<>>
    /\ step = "INPUT"

\* C15: the ids of the entries of reportsHistory, the seed included, are
\* pairwise distinct.
C15_IdsDistinct ==
    \A i, j \in 1..Len(reportsHistory) :
        i # j => reportsHistory[i].f["id"] # reportsHistory[j].f["id"]

\* a file name with its final extension removed
DropExtension(name) ==
    IF \E i \in 1..Len(name) : name[i] = "."
    THEN LET last == CHOOSE i \in 1..Len(name) :
                        name[i] = "." /\ \A j \in (i + 1)..Len(name) : name[j] # "."
         IN  SubSeq(name, 1, last - 1)
    ELSE name

\* C16: the title of a generated report is the name of the first uploaded
\* file with its final extension removed, and is 'Untitled Session' exactly
\* when no file was uploaded.
C16_TitleIsBaseName ==
    [][\A s \in 1..Len(sessions) :
          (Settles(s) /\ sessions'[s].pc = "succeeded") =>
              /\ report'.f["title"] = JStr(sessions'[s].title)
              /\ sessions'[s].title =
                    IF sessions[s].files = <<>> THEN <<"Untitled Session">>
                    ELSE DropExtension(sessions[s].files[1].name)
              /\ (sessions'[s].title = <<"Untitled Session">>)
                    <=> (sessions[s].files = <<>>)]_vars

\* the entry of files that the read of a selected file produces
EntryOf(f) == [name |-> f.name, type |-> f.type, data |-> ReadAsDataURL(f)]

\* a is b with some elements left out
RECURSIVE IsSubseq(_, _)
IsSubseq(a, b) ==
    IF a = <<>> THEN TRUE
    ELSE IF b = <<>> THEN FALSE
    ELSE IF Head(a) = Head(b) THEN IsSubseq(Tail(a), Tail(b))
    ELSE IsSubseq(a, Tail(b))

\* C17: attachments are in the order of selection: whatever the order in
\* which the reads complete, files lists the selected files in the order
\* the user selected them, and so does the attachment list of a request.
C17_FilesInSelectionOrder ==
    /\ IsSubseq(files, [i \in 1..Len(selected) |-> EntryOf(selected[i])])
    /\ \A s \in 1..Len(sessions) :
          IsSubseq(sessions[s].files,
                   [i \in 1..Len(selected) |-> EntryOf(selected[i])])

\* the step is a call of startAnalysis
Starts == Len(sessions') = Len(sessions) + 1

\* no selection has been discarded by New Session: each selected file is in
\* files or still being read
NothingDiscarded == Len(files) + Cardinality(pending) = Len(selected)

\* C18: the request of startAnalysis carries all that was collected when it
\* is called: the current context text, and one attachment for every file
\* the user has selected before the call.
C18_RequestCarriesEverySelection ==
    [][(Starts /\ NothingDiscarded) =>
          LET new == sessions'[Len(sessions')]
          IN  /\ new.parts[1] = TextPart(notes, "", context)
              /\ \A i \in 1..Len(selected) :
                    \E k \in 2..Len(new.parts) :
                        /\ new.parts[k].kind = "inlineData"
                        /\ new.parts[k].mimeType = selected[i].type
                        /\ new.parts[k].data = selected[i].body]_vars

\* the report lacks a part of the declared shape: summary is an object with
\* an overview, executiveBrief is a string
ShapeMismatch(r) ==
    \/ "summary" \notin DOMAIN r.f
    \/ "executiveBrief" \notin DOMAIN r.f
    \/ /\ "summary" \in DOMAIN r.f
       /\ \/ r.f["summary"].t # "obj"
          \/ "overview" \notin DOMAIN r.f["summary"].f

\* C19: a successful response whose parsed object does not match the
\* declared shape produces no error: its report is stored, and displaying
\* such a report in the REPORT step raises nothing.
C19_MismatchRendersWithoutError ==
    /\ \A s \in 1..Len(sessions) :
          (Succeeded(s) /\ ShapeMismatch(sessions[s].report)) =>
              \E i \in 1..Len(reportsHistory) :
                  reportsHistory[i] = sessions[s].report
    /\ (ReportPanel /\ ShapeMismatch(report)) => ~RenderThrows

\* C20: the collector rejects nothing: the completed read of a selected
\* file appends exactly one entry {name, type, data} for it to files,
\* whatever its type and however many entries files holds, and leaves the
\* entries already there as they were.
C20_EveryReadAppendsOneEntry ==
    [][\A i \in pending :
          i \notin pending' => files' = Append(files, EntryOf(selected[i]))]_vars

C20_Witness ==
    /\ pending = {}
    /\ Len(selected) = 2
    /\ Len(files) = 2
    /\ files[1] = EntryOf(FileDeck)
    /\ files[2] = EntryOf(FileDoc)

\* C21: whenever the step is REPORT a report is selected, also when New
\* Session is clicked between a session's success and its move to REPORT.
C21_ReportStepHasReport ==
    step = "REPORT" => report # JNull

\* the session's request has not settled, or its move to REPORT has not run
Outstanding(s) == sessions[s].pc \in {"awaiting", "succeeded"}

\* C22: whenever the step is ANALYZING some session is outstanding: its
\* request has not settled, or it succeeded and its move to REPORT has not
\* run yet.
C22_AnalyzingHasOutstandingSession ==
    step = "ANALYZING" => \E s \in 1..Len(sessions) : Outstanding(s)

C22_Witness ==
    /\ step = "ANALYZING"
    /\ Len(sessions) = 2
    /\ sessions[1].pc = "awaiting"
    /\ sessions[2].pc = "succeeded"
    /\ report = sessions[2].report

\* C23: with a request that settles and a user who does nothing meanwhile,
\* a session in ANALYZING eventually leaves it: to REPORT with the session's
\* report selected after a success, to INPUT after a failure.
C23_SessionLeavesAnalyzing ==
    \A s \in 1..MaxSessions :
        (s <= Len(sessions) /\ sessions[s].pc = "awaiting" /\ step = "ANALYZING")
            ~> /\ s <= Len(sessions)
               /\ \/ /\ sessions[s].pc = "shown"
                     /\ step = "REPORT"
                     /\ report = sessions[s].report
                  \/ /\ sessions[s].pc = "failed"
                     /\ step = "INPUT"

C23_Witness ==
    \E s \in 1..Len(sessions) :
        /\ sessions[s].pc = "shown"
        /\ sessions[s].resp = TextResponse(TxtReport)
        /\ step = "REPORT"
        /\ report = sessions[s].report
        /\ analysisProgress = 100
        /\ currentAnalysisStep = 3
        /\ activeTab = "GENERATE"

\* r is no report, or one of the entries of history h
NullOrIn(r, h) == r = JNull \/ \E i \in 1..Len(h) : h[i] = r

\* C24: the selected report is null or an entry of reportsHistory, before
\* and after every step: a generated report enters the history in the step
\* that selects it, and no handler selects a report from elsewhere.
C24_SelectedReportInHistory ==
    [][NullOrIn(report, reportsHistory) /\ NullOrIn(report', reportsHistory')]_vars

C24_Witness ==
    /\ Len(reportsHistory) = 2
    /\ report = reportsHistory[2]
    /\ report = MOCK_REPORT
    /\ step = "REPORT"
    /\ activeTab = "REPORTS"

\* C25: notes is the empty string in every reachable state, so the request
\* of every session has its Notes and its Slides Content empty: its text
\* part carries the context alone, beside the files.
C25_NotesAlwaysEmpty ==
    /\ notes = ""
    /\ \A s \in 1..Len(sessions) :
          /\ sessions[s].notes = ""
          /\ sessions[s].pc = "awaiting" =>
                sessions[s].parts[1] = TextPart("", "", sessions[s].context)

C25_Witness ==
    \E s \in 1..Len(sessions) :
        /\ sessions[s].pc = "awaiting"
        /\ sessions[s].context = "Q3 plan"
        /\ Len(sessions[s].files) = 1
        /\ Len(sessions[s].parts) = 2
        /\ sessions[s].parts[1] = TextPart("", "", "Q3 plan")

\* C26: New Session resets the collector and nothing else: after it the tab
\* is GENERATE, the step INPUT, report null, files, notes and context empty,
\* and reportsHistory and the progress are as before. Generate Meeting Intel
\* and Reports change only activeTab and step.
C26_NewSessionResetsCollectorOnly ==
    [][/\ NewSession =>
            /\ activeTab' = "GENERATE" /\ step' = "INPUT"
            /\ report' = JNull
            /\ files' = <<>> /\ notes' = "" /\ context' = ""
            /\ reportsHistory' = reportsHistory
            /\ analysisProgress' = analysisProgress
            /\ currentAnalysisStep' = currentAnalysisStep
       /\ (NavGenerate \/ NavReports) =>
            /\ step' = "INPUT"
            /\ activeTab' = IF NavGenerate THEN "GENERATE" ELSE "REPORTS"
            /\ files' = files /\ notes' = notes /\ context' = context
            /\ report' = report
            /\ reportsHistory' = reportsHistory
            /\ analysisProgress' = analysisProgress
            /\ currentAnalysisStep' = currentAnalysisStep]_vars

C26_Witness ==
    /\ activeTab = "GENERATE"
    /\ step = "INPUT"
    /\ report = JNull
    /\ files = <<>>
    /\ context = ""
    /\ Len(selected) = 1
    /\ pending = {}
    /\ Len(reportsHistory) = 2
    /\ analysisProgress = 100

\* C27: analysisProgress stays within 0..100: no callback of the timer and
\* no completion leaves it above 100.
C27_ProgressWithinRange ==
    analysisProgress \in 0..100

====
